---- MODULE Spec2Model ----
(***************************************************************************)
(* A model of the haruno bot's coolq gateway client (package coolq) and of *)
(* the part of the logger service it calls.                                *)
(*                                                                         *)
(*   Spec        plugin registration and the event connection's OnMessage  *)
(*               callback (the event router).                              *)
(*   SpecApi     the API connection: SendGroupMsg, the acknowledgement     *)
(*               callback, the clock and the sweep goroutine.              *)
(*   SpecTracker the acknowledgement callback and the sweep applied to     *)
(*               every content of the echoqueue map (the two are checked   *)
(*               as functions of the map they are handed).                 *)
(*   SpecStartup startup as main.go runs it: Initialize, then Connect and  *)
(*               RegisterAllPlugins in two goroutines.                     *)
(*   SpecRace    the acknowledgement callback and one sweep goroutine,     *)
(*               statement by statement, with the mutex.                   *)
(*   SpecLogger  loggerService.Add called in sequence, no reader.          *)
(*   SpecAdders  goroutines inside Add, statement by statement, under      *)
(*               fairness.                                                 *)
(*   SpecPong    setupPong's goroutine for each log viewer connection.     *)
(***************************************************************************)
EXTENDS Integers, Sequences, FiniteSets

\* ---------------------------------------------------------------- bounds
MaxPlugins == 2      \* descriptors in the plugin list
MaxTime == 62        \* the clock stops here (seconds)
MaxSends == 2        \* actions transmitted by SendGroupMsg
MaxLogs == 2         \* log entries caused by the transport per run
MaxEcho == 2         \* largest correlation id: the last second an action is sent
MaxAdds == 11        \* calls of loggerService.Add
MaxAdders == 2       \* goroutines calling Add concurrently
MaxConns == 2        \* log viewer connections

\* ------------------------------------------------------ program constants
timeForWait == 30
maxQueueSize == 10
LogTypeInfo == 0
LogTypeError == 1
LogTypeSuccess == 2
noFilterKey == "__NEVER_SET_UNUSED_KEY__"

\* --------------------------------------------------------- input domains
Names == {"A", "B"}
Keys == {"join", noFilterKey}
GroupIDs == {10}
Messages == {"hi"}
Adders == 1..MaxAdders
Conns == 1..MaxConns

VARIABLES
    entries,        \* the plugin list registerAllPlugins ranges over
    pluginEntries,  \* cqclient.pluginEntries: name -> pluginEntry
    phase,          \* "new", "ready" (Initialize returned), "exited" (log.Fatalln)
    loadCalls,      \* descriptor indices whose Load hook was invoked, in order
    loadedHooks,    \* descriptor indices whose Loaded hook was started
    event,          \* the last payload handed to eventConn.OnMessage
    calls,          \* filter and handler invocations made for that payload
    crashed,        \* a panic left a callback and took the process down (the
                    \* transport's goroutine may or may not recover it: both happen)
    success,        \* loggerService.success
    fails,          \* loggerService.fails
    logChan,        \* loggerService.logChan
    apiConnected,   \* apiConn.IsConnected()
    now,            \* time.Now().Unix()
    lastTick,       \* when the sweep goroutine's ticker last fired
    echoqueue,      \* cqclient.echoqueue, as the set of keys mapped to true
    sent,           \* payloads handed to apiConn.Send, in order
    acked,          \* echo values the acknowledgement callback has decoded
    op,             \* the operation that produced this state
    \* startup as main.go runs it
    connPc,         \* the Connect goroutine: "off", "api", "event", "up"
    regPc,          \* the RegisterAllPlugins goroutine: 0 (not started), the
                    \* index of the descriptor its wiring loop is at, or past it
    routed,         \* an event has been routed
    \* the acknowledgement callback and the sweep goroutine, statement by statement
    mu,             \* cqclient.mu: "none", or the context holding it
    ackPc,          \* "idle", "test", "lock", "delete", "unlock"
    ackEcho,        \* msg.Echo of the frame being handled
    swPc,           \* "wait", "range", "log", "lock", "delete", "unlock", "done"
    swEcho,         \* the key the range loop is at
    swSeen,         \* the keys the range loop has yielded
    removedBy,      \* id -> the context whose delete removed it ("none": no one)
    access,         \* the last access to c.echoqueue: who, kind, lock held
    \* goroutines inside loggerService.Add
    added,          \* calls of Add so far
    addPc,          \* caller -> "idle", "send", "len", "recv"
    \* setupPong
    conns,          \* loggerService.conns: connection -> "absent", "true", "false"
    pongPc,         \* connection -> "off", "test", "select", "done", "panic"
    closes,         \* connection -> close(quit) statements executed
    pongTick        \* connection -> a tick is waiting in pongTicker.C

startupVars == <<connPc, regPc, routed>>
raceVars == <<mu, ackPc, ackEcho, swPc, swEcho, swSeen, removedBy, access>>
addVars == <<added, addPc>>
pongVars == <<conns, pongPc, closes, pongTick>>
auxVars == <<startupVars, raceVars, addVars, pongVars>>

vars == <<entries, pluginEntries, phase, loadCalls, loadedHooks, event, calls,
          crashed, success, fails, logChan, apiConnected, now, lastTick, echoqueue,
          sent, acked, op, auxVars>>

routerVars == <<entries, pluginEntries, phase, loadCalls, loadedHooks, event, calls>>
apiVars == <<apiConnected, now, lastTick, echoqueue, sent, acked>>
logVars == <<success, fails, logChan>>

\* ------------------------------------------------------------- utilities
SeqsUpTo(S, n) == UNION {[1..k -> S] : k \in 0..n}

Perms(S) == {s \in [1..Cardinality(S) -> S] : \A x \in S : \E i \in DOMAIN s : s[i] = x}

MapSet(f, k, v) == [x \in (DOMAIN f) \cup {k} |-> IF x = k THEN v ELSE f[x]]

EmptyMap == [x \in {} |-> 0]

Range(s) == {s[i] : i \in DOMAIN s}

\* ---------------------------------------------------------------- logger
NewLog(ltype, what, echo) == [Type |-> ltype, what |-> what, echo |-> echo]

\* loggerService.Add on the channel's content: send, then drop the oldest
\* entry once the length has reached maxQueueSize.
QueueAdd(q, lg) ==
    LET q1 == Append(q, lg)
    IN IF Len(q1) >= maxQueueSize THEN Tail(q1) ELSE q1

SuccessAfter(n, lg) == IF lg.Type = LogTypeSuccess THEN n + 1 ELSE n

FailsAfter(n, lg) == IF lg.Type = LogTypeError THEN n + 1 ELSE n

Add(lg) ==
    /\ success' = SuccessAfter(success, lg)
    /\ fails' = FailsAfter(fails, lg)
    /\ logChan' = QueueAdd(logChan, lg)

AddLog(ltype, what, echo) == Add(NewLog(ltype, what, echo))

\* ------------------------------------------- plugin registration (4.1)
Descriptors == [name : Names, filters : SUBSET Keys, handlers : SUBSET Keys]

FilterId(i, k) == [kind |-> "filter", idx |-> i, key |-> k]
HandlerId(i, k) == [kind |-> "handler", idx |-> i, key |-> k]
NoFn == [kind |-> "none", idx |-> 0, key |-> ""]

\* A value of type Handler: a plugin's own function, or the closure
\* registerAllPlugins builds over noFilterHanlers.
PluginHandler(i, k) == [kind |-> "plugin", idx |-> i, key |-> k, list |-> <<>>]
SynthHandler(i, list) == [kind |-> "synth", idx |-> i, key |-> noFilterKey, list |-> list]

\* The keys of the first loop that pass the handler == nil test.
HasFilter(plug) == {k \in plug.filters : k \in plug.handlers}

\* The keys the second loop appends to noFilterHanlers.
Unclaimed(plug) == {k \in plug.handlers : k \notin HasFilter(plug)}

\* One iteration of the wiring loop: the pluginEntry built for entries[i];
\* order is the order in which the second loop met the unclaimed handlers.
BuildEntry(plug, i, order) ==
    LET fitlers == [k \in HasFilter(plug) |-> FilterId(i, k)]
        claimed == [k \in HasFilter(plug) |-> PluginHandler(i, k)]
    IN [idx |-> i,
        fitlers |-> fitlers,
        handlers |-> MapSet(claimed, noFilterKey, SynthHandler(i, order))]

\* A store that would keep the first entry of a name (what C9 rules out).
StoreKeepFirst(pe, name, entry) == IF name \in DOMAIN pe THEN pe ELSE MapSet(pe, name, entry)

\* c.pluginEntries[pluginName] = entry
StoreEntry(pe, name, entry) == MapSet(pe, name, entry)

RECURSIVE Wire(_, _, _, _)
Wire(list, i, pe, orders) ==
    IF i > Len(list) THEN pe
    ELSE Wire(list, i + 1,
              StoreEntry(pe, list[i].name, BuildEntry(list[i], i, orders[i])),
              orders)

\* The orders map iteration can hand the unclaimed handlers of each descriptor.
WiringOrders(list) ==
    {o \in [DOMAIN list -> UNION {Perms(S) : S \in SUBSET Keys}] :
        \A i \in DOMAIN list : o[i] \in Perms(Unclaimed(list[i]))}

\* ---------------------------------------------------- event router (4.2)
Call(st, kind, i, k, res) ==
    [calls |-> Append(st.calls, [kind |-> kind, idx |-> i, key |-> k, res |-> res]),
     panicked |-> (res = "panic")]

RECURSIVE InvokeList(_, _, _, _)
InvokeList(st, i, list, bad) ==
    IF st.panicked \/ list = <<>> THEN st
    ELSE InvokeList(Call(st, "handler", i, Head(list),
                         IF bad = HandlerId(i, Head(list)) THEN "panic" ELSE "ok"),
                    i, Tail(list), bad)

\* handleFunc(event) for a value of the handlers map.
Invoke(st, h, bad) ==
    IF st.panicked THEN st
    ELSE IF h.kind = "plugin"
         THEN Call(st, "handler", h.idx, h.key,
                   IF bad = HandlerId(h.idx, h.key) THEN "panic" ELSE "ok")
         ELSE LET s1 == Call(st, "synth_enter", h.idx, noFilterKey, "ok")
                  s2 == InvokeList(s1, h.idx, h.list, bad)
              IN IF s2.panicked THEN s2
                 ELSE Call(s2, "synth_exit", h.idx, noFilterKey, "ok")

\* One iteration of the inner loop over entry.fitlers.
FilterStep(st, entry, key, truth, bad) ==
    LET handleFunc == entry.handlers[key]
        f == entry.fitlers[key]
        res == IF bad = f THEN "panic"
               ELSE IF f \in truth THEN "true" ELSE "false"
        s1 == Call(st, "filter", f.idx, f.key, res)
    IN IF res = "true" THEN Invoke(s1, handleFunc, bad) ELSE s1

\* The inner loop over the keys of entry.fitlers not yet visited: the set of
\* outcomes, one for every order the map's iteration can take.
RECURSIVE RunFilters(_, _, _, _, _)
RunFilters(st, entry, keys, truth, bad) ==
    IF st.panicked \/ keys = {} THEN {st}
    ELSE UNION {RunFilters(FilterStep(st, entry, k, truth, bad),
                           entry, keys \ {k}, truth, bad) : k \in keys}

\* A loop body that would run the filters before the unconditional function
\* (what C10 rules out).
FiltersFirst(st, entry, truth, bad) ==
    {Invoke(s, entry.handlers[noFilterKey], bad) :
        s \in RunFilters(st, entry, DOMAIN entry.fitlers, truth, bad)}

\* The body of the loop over c.pluginEntries for one entry.
RouteEntry(st, entry, truth, bad) ==
    RunFilters(Invoke(st, entry.handlers[noFilterKey], bad),
               entry, DOMAIN entry.fitlers, truth, bad)

\* The loop over the entries of c.pluginEntries not yet visited.
RECURSIVE RouteAll(_, _, _, _, _)
RouteAll(st, pe, names, truth, bad) ==
    IF st.panicked \/ names = {} THEN {st}
    ELSE UNION {UNION {RouteAll(s, pe, names \ {n}, truth, bad) :
                          s \in RouteEntry(st, pe[n], truth, bad)} : n \in names}

\* What an event can be to the plugins: the filters it satisfies and the
\* function (if any) that panics on it.
BoundFilters(pe) == UNION {Range(pe[n].fitlers) : n \in DOMAIN pe}

PluginFns(pe, list) ==
    BoundFilters(pe) \cup
    UNION {{HandlerId(pe[n].idx, k) : k \in list[pe[n].idx].handlers} : n \in DOMAIN pe}

InvalidEvent == [valid |-> FALSE, truth |-> {}, bad |-> NoFn]
NoEvent == [valid |-> TRUE, truth |-> {}, bad |-> NoFn]

\* ------------------------------------------------------------ operations
\* name: the operation; ok: it took its normal path (for SendGroupMsg: the API
\* connection was up); echo: the correlation id it handled; hit: the test
\* c.echoqueue[echo] was true.
Op(name, ok, echo, hit) == [name |-> name, ok |-> ok, echo |-> echo, hit |-> hit]

LogRoom == Len(logChan) < MaxLogs

Running == phase = "ready" /\ ~crashed

\* A load pass that goes on to the later descriptors after a failed Load
\* (what C12 rules out).
LoadPassAll(list, failAt) == [i \in 1..Len(list) |-> i]

\* The load pass of registerAllPlugins (lines 58-63): the Load hooks invoked,
\* in order, when the first failing descriptor is failAt (0: none fails);
\* log.Fatalln ends the process at the first failure.
LoadPass(list, failAt) == [i \in 1..(IF failAt > 0 THEN failAt ELSE Len(list)) |-> i]

\* cqclient.Initialize: registerAllPlugins (load pass, wiring pass, Loaded
\* hooks), the callbacks, and the sweep goroutine with its ticker.
\* failAt is the first descriptor whose Load returns an error (0: none).
\* op.echo records failAt.
Initialize(failAt, orders) ==
    /\ phase = "new"
    /\ loadCalls' = LoadPass(entries, failAt)
    /\ IF failAt > 0
       THEN /\ phase' = "exited"
            /\ UNCHANGED <<pluginEntries, loadedHooks, lastTick>>
       ELSE /\ pluginEntries' = Wire(entries, 1, pluginEntries, orders)
            /\ loadedHooks' = DOMAIN entries
            /\ phase' = "ready"
            /\ lastTick' = now
    /\ op' = Op("Initialize", failAt = 0, failAt, FALSE)
    /\ UNCHANGED <<entries, event, calls, crashed, success, fails, logChan,
                   apiConnected, now, echoqueue, sent, acked>>
    /\ UNCHANGED <<raceVars, addVars, pongVars>>

\* eventConn.OnMessage
EventOnMessage(ev) ==
    /\ Running
    /\ event' = ev
    /\ IF ~ev.valid
       THEN \* log.Panicln: the AddLog and the return after it are not reached
            /\ calls' = <<>>
            /\ crashed' \in BOOLEAN
            /\ op' = Op("EventOnMessage", FALSE, 0, FALSE)
       ELSE \E st \in RouteAll([calls |-> <<>>, panicked |-> FALSE], pluginEntries,
                               DOMAIN pluginEntries, ev.truth, ev.bad) :
               /\ calls' = st.calls
               /\ crashed' \in (IF st.panicked THEN BOOLEAN ELSE {FALSE})
               /\ op' = Op("EventOnMessage", ~st.panicked, 0, FALSE)
    /\ UNCHANGED <<entries, pluginEntries, phase, loadCalls, loadedHooks,
                   success, fails, logChan>>
    /\ UNCHANGED apiVars
    /\ UNCHANGED <<raceVars, addVars, pongVars>>

Events(pe, list) ==
    {InvalidEvent} \cup
    [valid : {TRUE}, truth : SUBSET BoundFilters(pe), bad : PluginFns(pe, list) \cup {NoFn}]

\* The transport connects the API connection: OnConnect = handleConnect.
ApiConnect ==
    /\ Running /\ ~apiConnected /\ LogRoom
    /\ apiConnected' = TRUE
    /\ AddLog(LogTypeInfo, "connected", 0)
    /\ op' = Op("ApiConnect", TRUE, 0, FALSE)
    /\ UNCHANGED routerVars
    /\ UNCHANGED <<crashed, now, lastTick, echoqueue, sent, acked>>
    /\ UNCHANGED auxVars

\* The transport loses the API connection: OnError = handleError.
ApiError ==
    /\ Running /\ apiConnected /\ LogRoom
    /\ apiConnected' = FALSE
    /\ Add(NewLog(LogTypeError, "transport", 0))
    /\ op' = Op("ApiError", TRUE, 0, FALSE)
    /\ UNCHANGED routerVars
    /\ UNCHANGED <<crashed, now, lastTick, echoqueue, sent, acked>>
    /\ UNCHANGED auxVars

Payload(groupID, message, echo) ==
    [action |-> "send_group_msg", group_id |-> groupID, message |-> message, echo |-> echo]

\* A send without the IsAPIOk test (what C6 rules out).
SendUnchecked(groupID, message) ==
    /\ Running
    /\ Len(sent) < MaxSends /\ now <= MaxEcho
    /\ sent' = Append(sent, Payload(groupID, message, now))
    /\ op' = Op("SendGroupMsg", apiConnected, now, FALSE)
    /\ UNCHANGED routerVars
    /\ UNCHANGED <<crashed, success, fails, logChan, apiConnected, now, lastTick, echoqueue, acked>>
    /\ UNCHANGED auxVars

\* cqclient.SendGroupMsg
SendGroupMsg(groupID, message) ==
    /\ Running
    /\ IF ~apiConnected
       THEN UNCHANGED sent
       ELSE /\ Len(sent) < MaxSends /\ now <= MaxEcho
            /\ sent' = Append(sent, Payload(groupID, message, now))
    /\ op' = Op("SendGroupMsg", apiConnected, IF apiConnected THEN now ELSE 0, FALSE)
    /\ UNCHANGED routerVars
    /\ UNCHANGED <<crashed, success, fails, logChan, apiConnected, now, lastTick, echoqueue, acked>>
    /\ UNCHANGED auxVars

\* A callback that would leave the echo in the map (what C4 rules out).
ResolveKeep(q, echo) == q

\* Lines 121-126 of the acknowledgement callback on the map's content.
Resolve(q, echo) == IF echo \in q THEN q \ {echo} ELSE q

SentEchoes == {sent[i].echo : i \in DOMAIN sent}

\* An acknowledgement callback that treats a decode failure the way the event
\* callback does, with log.Panicln (what C16 rules out).
ApiOnMessagePanic(raw) ==
    /\ Running
    /\ IF ~raw.valid
       THEN /\ crashed' \in BOOLEAN
            /\ UNCHANGED <<echoqueue, acked>>
       ELSE /\ echoqueue' = IF raw.echo \in echoqueue THEN echoqueue \ {raw.echo} ELSE echoqueue
            /\ acked' = acked \cup ({raw.echo} \cap {sent[i].echo : i \in DOMAIN sent})
            /\ UNCHANGED crashed
    /\ op' = Op("ApiOnMessage", raw.valid, raw.echo, raw.valid /\ raw.echo \in echoqueue)
    /\ UNCHANGED routerVars
    /\ UNCHANGED <<success, fails, logChan, apiConnected, now, lastTick, sent>>
    /\ UNCHANGED auxVars

\* apiConn.OnMessage
ApiOnMessage(raw) ==
    /\ Running
    /\ IF ~raw.valid
       THEN /\ LogRoom
            /\ AddLog(LogTypeError, "decode", 0)
            /\ UNCHANGED <<echoqueue, acked>>
       ELSE /\ echoqueue' = Resolve(echoqueue, raw.echo)
            /\ acked' = acked \cup ({raw.echo} \cap SentEchoes)
            /\ UNCHANGED <<success, fails, logChan>>
    /\ op' = Op("ApiOnMessage", raw.valid, raw.echo, raw.valid /\ raw.echo \in echoqueue)
    /\ UNCHANGED routerVars
    /\ UNCHANGED <<crashed, apiConnected, now, lastTick, sent>>
    /\ UNCHANGED auxVars

\* Frames the gateway can deliver: garbage, or an acknowledgement whose echo
\* is one that was sent, one that is tracked, or a small number.
ApiFrames ==
    {[valid |-> FALSE, echo |-> 0]} \cup
    [valid : {TRUE}, echo : SentEchoes \cup echoqueue \cup (0..(MaxEcho + 1))]

\* One second passes; the ticker's tick is taken when it is due.
Tick ==
    /\ Running
    /\ now < MaxTime
    /\ now - lastTick < timeForWait
    /\ now' = now + 1
    /\ op' = Op("Tick", TRUE, 0, FALSE)
    /\ UNCHANGED routerVars
    /\ UNCHANGED <<crashed, success, fails, logChan, apiConnected, lastTick, echoqueue, sent, acked>>
    /\ UNCHANGED auxVars

\* The ids the sweep's test `state && now-echo > timeForWait` selects.
Expired(q, t) == {echo \in q : t - echo > timeForWait}

RECURSIVE LogTimeouts(_, _)
LogTimeouts(q, order) ==
    IF order = <<>> THEN q
    ELSE LogTimeouts(QueueAdd(q, NewLog(LogTypeError, "timeout", Head(order))), Tail(order))

\* One pass of the sweep goroutine's loop body (case <-ticker.C).
Sweep(order) ==
    /\ Running
    /\ now - lastTick = timeForWait
    /\ lastTick' = now
    /\ logChan' = LogTimeouts(logChan, order)
    /\ fails' = fails + Len(order)
    /\ echoqueue' = echoqueue \ Range(order)
    /\ op' = Op("Sweep", TRUE, 0, FALSE)
    /\ UNCHANGED routerVars
    /\ UNCHANGED <<crashed, success, apiConnected, now, sent, acked>>
    /\ UNCHANGED auxVars

\* ------------------------------------------------------- specifications
NoAccess == [who |-> "none", kind |-> "none", locked |-> TRUE]

\* main.go's goroutines not started.
InitStartupOff ==
    /\ connPc = "off"
    /\ regPc = 0
    /\ routed = FALSE

\* No acknowledgement callback and no sweep pass under way.
InitRaceOff ==
    /\ mu = "none"
    /\ ackPc = "idle"
    /\ ackEcho = 0
    /\ swPc = "wait"
    /\ swEcho = 0
    /\ swSeen = {}
    /\ removedBy = [id \in 0..MaxEcho |-> "none"]
    /\ access = NoAccess

\* No goroutine inside Add.
InitAddOff ==
    /\ added = 0
    /\ addPc = [g \in Adders |-> "idle"]

\* No log viewer connected.
InitPongOff ==
    /\ conns = [c \in Conns |-> "absent"]
    /\ pongPc = [c \in Conns |-> "off"]
    /\ closes = [c \in Conns |-> 0]
    /\ pongTick = [c \in Conns |-> FALSE]

InitCommon ==
    /\ pluginEntries = EmptyMap
    /\ loadCalls = <<>>
    /\ loadedHooks = {}
    /\ event = NoEvent
    /\ calls = <<>>
    /\ crashed = FALSE
    /\ success = 0
    /\ fails = 0
    /\ logChan = <<>>
    /\ apiConnected = FALSE
    /\ sent = <<>>
    /\ acked = {}
    /\ op = Op("init", TRUE, 0, FALSE)

\* The program after construction, for every plugin list of the bound.
Init ==
    /\ InitCommon
    /\ InitStartupOff /\ InitRaceOff /\ InitAddOff /\ InitPongOff
    /\ entries \in SeqsUpTo(Descriptors, MaxPlugins)
    /\ phase = "new"
    /\ now = 0
    /\ lastTick = 0
    /\ echoqueue = {}

DoInitialize ==
    /\ \E failAt \in 0..Len(entries) : \E orders \in WiringOrders(entries) :
          Initialize(failAt, orders)
    /\ UNCHANGED startupVars

DoEvent ==
    /\ \E ev \in Events(pluginEntries, entries) : EventOnMessage(ev)
    /\ UNCHANGED startupVars

Next == DoInitialize \/ DoEvent

Spec == Init /\ [][Next]_vars

\* The API side of the program, with no plugins.
InitApi ==
    /\ InitCommon
    /\ InitStartupOff /\ InitRaceOff /\ InitAddOff /\ InitPongOff
    /\ entries = <<>>
    /\ phase = "new"
    /\ now = 0
    /\ lastTick = 0
    /\ echoqueue = {}

DoSend == \E g \in GroupIDs : \E m \in Messages : SendGroupMsg(g, m)

DoAck == \E raw \in ApiFrames : ApiOnMessage(raw)

DoSweep == \E order \in Perms(Expired(echoqueue, now)) : Sweep(order)

NextApi == DoInitialize \/ ApiConnect \/ ApiError \/ DoSend \/ DoAck \/ Tick \/ DoSweep

SpecApi == InitApi /\ [][NextApi]_vars

\* The acknowledgement callback and the sweep on every content of the map.
InitTracker ==
    /\ InitCommon
    /\ InitStartupOff /\ InitRaceOff /\ InitAddOff /\ InitPongOff
    /\ entries = <<>>
    /\ phase = "ready"
    /\ now = MaxEcho
    /\ lastTick = MaxEcho
    /\ echoqueue \in SUBSET (0..MaxEcho)

NextTracker == DoAck \/ Tick \/ DoSweep

SpecTracker == InitTracker /\ [][NextTracker]_vars

\* ----------------------------------------------- startup as main.go runs it
\* haruno.Initialize (main.go): coolq.Client.Initialize, which registers the
\* plugins and installs the callbacks, then `go coolq.Client.Connect(...)`
\* and `go coolq.Client.RegisterAllPlugins()`.
MainInitialize(failAt, orders) ==
    /\ Initialize(failAt, orders)
    /\ connPc' = IF failAt = 0 THEN "api" ELSE connPc
    /\ UNCHANGED <<regPc, routed>>

\* Connect: c.apiConn.Dial; OnConnect = handleConnect logs the connection.
ConnectApi ==
    /\ Running /\ connPc = "api"
    /\ connPc' = "event"
    /\ apiConnected' = TRUE
    /\ AddLog(LogTypeInfo, "connected", 0)
    /\ op' = Op("Connect", TRUE, 0, FALSE)
    /\ UNCHANGED routerVars
    /\ UNCHANGED <<crashed, now, lastTick, echoqueue, sent, acked, regPc, routed>>
    /\ UNCHANGED <<raceVars, addVars, pongVars>>

\* Connect: c.eventConn.Dial; from here on the gateway's events arrive.
ConnectEvent ==
    /\ Running /\ connPc = "event"
    /\ connPc' = "up"
    /\ AddLog(LogTypeInfo, "connected", 0)
    /\ op' = Op("Connect", TRUE, 0, FALSE)
    /\ UNCHANGED routerVars
    /\ UNCHANGED <<crashed, apiConnected, now, lastTick, echoqueue, sent, acked,
                   regPc, routed>>
    /\ UNCHANGED <<raceVars, addVars, pongVars>>

\* The descriptors the goroutine's wiring loop has yet to store.
WiringLeft == {i \in DOMAIN entries : i >= regPc}

\* RegisterAllPlugins in its goroutine: the load pass. The Load hooks that
\* succeeded inside Initialize are invoked again.
RegisterLoad ==
    /\ Running /\ connPc # "off" /\ regPc = 0
    /\ loadCalls' = loadCalls \o LoadPass(entries, 0)
    /\ regPc' = 1
    /\ op' = Op("RegisterLoad", TRUE, 0, FALSE)
    /\ UNCHANGED <<entries, pluginEntries, phase, loadedHooks, event, calls, crashed>>
    /\ UNCHANGED <<logVars, apiVars, connPc, routed>>
    /\ UNCHANGED <<raceVars, addVars, pongVars>>

\* One iteration of the goroutine's wiring loop, ending in the store
\* c.pluginEntries[pluginName] = entry. The map is not locked: when events
\* are arriving the runtime may stop the process on detecting the store
\* during the router's iteration.
RegisterWire(order) ==
    /\ Running /\ connPc # "off" /\ regPc \in DOMAIN entries
    /\ pluginEntries' = StoreEntry(pluginEntries, entries[regPc].name,
                                   BuildEntry(entries[regPc], regPc, order))
    /\ regPc' = regPc + 1
    /\ crashed' \in (IF connPc = "up" THEN BOOLEAN ELSE {FALSE})
    /\ op' = Op("RegisterWire", TRUE, regPc, FALSE)
    /\ UNCHANGED <<entries, phase, loadCalls, loadedHooks, event, calls>>
    /\ UNCHANGED <<logVars, apiVars, connPc, routed>>
    /\ UNCHANGED <<raceVars, addVars, pongVars>>

\* The goroutine's last loop: go plug.Loaded() for every descriptor.
RegisterLoaded ==
    /\ Running /\ connPc # "off" /\ regPc = Len(entries) + 1
    /\ loadedHooks' = DOMAIN entries
    /\ regPc' = regPc + 1
    /\ op' = Op("RegisterLoaded", TRUE, 0, FALSE)
    /\ UNCHANGED <<entries, pluginEntries, phase, loadCalls, event, calls, crashed>>
    /\ UNCHANGED <<logVars, apiVars, connPc, routed>>
    /\ UNCHANGED <<raceVars, addVars, pongVars>>

\* eventConn.OnMessage once the event connection is up.
StartupEvent(ev) ==
    /\ connPc = "up"
    /\ EventOnMessage(ev)
    /\ routed' = TRUE
    /\ UNCHANGED <<connPc, regPc>>

\* Plugin lists without filters: the handlers are all unconditional.
StartupDescriptors == {d \in Descriptors : d.filters = {}}

InitStartup ==
    /\ InitCommon
    /\ InitStartupOff /\ InitRaceOff /\ InitAddOff /\ InitPongOff
    /\ entries \in SeqsUpTo(StartupDescriptors, MaxPlugins)
    /\ phase = "new"
    /\ now = 0
    /\ lastTick = 0
    /\ echoqueue = {}

DoMainInitialize ==
    \E failAt \in 0..Len(entries) : \E orders \in WiringOrders(entries) :
        MainInitialize(failAt, orders)

DoRegisterWire ==
    \E order \in UNION {Perms(S) : S \in SUBSET Keys} :
        /\ regPc \in DOMAIN entries
        /\ order \in Perms(Unclaimed(entries[regPc]))
        /\ RegisterWire(order)

DoStartupEvent == \E ev \in Events(pluginEntries, entries) : StartupEvent(ev)

NextStartup ==
    \/ DoMainInitialize
    \/ ConnectApi
    \/ ConnectEvent
    \/ RegisterLoad
    \/ DoRegisterWire
    \/ RegisterLoaded
    \/ DoStartupEvent

SpecStartup == InitStartup /\ [][NextStartup]_vars

\* ------------- the acknowledgement callback and the sweep, by statement
\* What these statements leave alone.
raceFrame == <<routerVars, crashed, apiConnected, now, lastTick, sent, acked,
               startupVars, addVars, pongVars>>

\* An access to c.echoqueue made by context who; locked: who holds c.mu.
Access(who, kind) == [who |-> who, kind |-> kind, locked |-> (mu = who)]

\* apiConn.OnMessage, lines 115-120: json.Unmarshal and its error branch.
AckDecode(raw) ==
    /\ Running /\ ackPc = "idle"
    /\ IF ~raw.valid
       THEN /\ LogRoom
            /\ AddLog(LogTypeError, "decode", 0)
            /\ UNCHANGED <<ackPc, ackEcho>>
       ELSE /\ ackPc' = "test"
            /\ ackEcho' = raw.echo
            /\ UNCHANGED logVars
    /\ op' = Op("AckDecode", raw.valid, raw.echo, FALSE)
    /\ UNCHANGED <<echoqueue, mu, swPc, swEcho, swSeen, removedBy, access>>
    /\ UNCHANGED raceFrame

\* Line 122: if c.echoqueue[echo], read before c.mu.Lock().
AckTest ==
    /\ Running /\ ackPc = "test"
    /\ access' = Access("ack", "read")
    /\ ackPc' = IF ackEcho \in echoqueue THEN "lock" ELSE "idle"
    /\ op' = Op("AckTest", TRUE, ackEcho, ackEcho \in echoqueue)
    /\ UNCHANGED <<logVars, echoqueue, mu, ackEcho, swPc, swEcho, swSeen, removedBy>>
    /\ UNCHANGED raceFrame

\* Line 123: c.mu.Lock()
AckLock ==
    /\ Running /\ ackPc = "lock" /\ mu = "none"
    /\ mu' = "ack"
    /\ ackPc' = "delete"
    /\ op' = Op("AckLock", TRUE, ackEcho, FALSE)
    /\ UNCHANGED <<logVars, echoqueue, ackEcho, swPc, swEcho, swSeen, removedBy, access>>
    /\ UNCHANGED raceFrame

\* Line 124: delete(c.echoqueue, echo)
AckDelete ==
    /\ Running /\ ackPc = "delete"
    /\ access' = Access("ack", "delete")
    /\ echoqueue' = echoqueue \ {ackEcho}
    /\ removedBy' = IF ackEcho \in echoqueue
                    THEN [removedBy EXCEPT ![ackEcho] = "ack"] ELSE removedBy
    /\ ackPc' = "unlock"
    /\ op' = Op("AckDelete", TRUE, ackEcho, ackEcho \in echoqueue)
    /\ UNCHANGED <<logVars, mu, ackEcho, swPc, swEcho, swSeen>>
    /\ UNCHANGED raceFrame

\* Line 125: c.mu.Unlock(); the callback returns.
AckUnlock ==
    /\ Running /\ ackPc = "unlock"
    /\ mu' = "none"
    /\ ackPc' = "idle"
    /\ op' = Op("AckUnlock", TRUE, ackEcho, FALSE)
    /\ UNCHANGED <<logVars, echoqueue, ackEcho, swPc, swEcho, swSeen, removedBy, access>>
    /\ UNCHANGED raceFrame

\* Lines 155-156: case <-ticker.C and now := time.Now().Unix(). A pass takes
\* no time on the clock of whole seconds.
SweepTick ==
    /\ Running /\ swPc = "wait"
    /\ swPc' = "range"
    /\ swSeen' = {}
    /\ op' = Op("SweepTick", TRUE, 0, FALSE)
    /\ UNCHANGED <<logVars, echoqueue, mu, ackPc, ackEcho, swEcho, removedBy, access>>
    /\ UNCHANGED raceFrame

\* Lines 157-158: the range statement hands out the next key of the map
\* (or ends the loop) and the test state && now-echo > timeForWait is made;
\* c.mu is not held.
SweepRange ==
    /\ Running /\ swPc = "range"
    /\ access' = Access("sweep", "range")
    /\ IF echoqueue \ swSeen = {}
       THEN /\ swPc' = "wait"
            /\ op' = Op("SweepRange", FALSE, 0, FALSE)
            /\ UNCHANGED <<swEcho, swSeen>>
       ELSE \E echo \in echoqueue \ swSeen :
               /\ swEcho' = echo
               /\ swSeen' = swSeen \cup {echo}
               /\ swPc' = IF now - echo > timeForWait THEN "log" ELSE "range"
               /\ op' = Op("SweepRange", TRUE, echo, now - echo > timeForWait)
    /\ UNCHANGED <<logVars, echoqueue, mu, ackPc, ackEcho, removedBy>>
    /\ UNCHANGED raceFrame

\* Line 159: logger.Service.AddLog(logger.LogTypeError, "Echo = ... 响应超时(30s).")
SweepLog ==
    /\ Running /\ swPc = "log"
    /\ AddLog(LogTypeError, "timeout", swEcho)
    /\ swPc' = "lock"
    /\ op' = Op("SweepLog", TRUE, swEcho, FALSE)
    /\ UNCHANGED <<echoqueue, mu, ackPc, ackEcho, swEcho, swSeen, removedBy, access>>
    /\ UNCHANGED raceFrame

\* Line 160: c.mu.Lock()
SweepLock ==
    /\ Running /\ swPc = "lock" /\ mu = "none"
    /\ mu' = "sweep"
    /\ swPc' = "delete"
    /\ op' = Op("SweepLock", TRUE, swEcho, FALSE)
    /\ UNCHANGED <<logVars, echoqueue, ackPc, ackEcho, swEcho, swSeen, removedBy, access>>
    /\ UNCHANGED raceFrame

\* Line 161: delete(c.echoqueue, echo)
SweepDelete ==
    /\ Running /\ swPc = "delete"
    /\ access' = Access("sweep", "delete")
    /\ echoqueue' = echoqueue \ {swEcho}
    /\ removedBy' = IF swEcho \in echoqueue
                    THEN [removedBy EXCEPT ![swEcho] = "sweep"] ELSE removedBy
    /\ swPc' = "unlock"
    /\ op' = Op("SweepDelete", TRUE, swEcho, swEcho \in echoqueue)
    /\ UNCHANGED <<logVars, mu, ackPc, ackEcho, swEcho, swSeen>>
    /\ UNCHANGED raceFrame

\* Line 162: c.mu.Unlock(); back to the range statement.
SweepUnlock ==
    /\ Running /\ swPc = "unlock"
    /\ mu' = "none"
    /\ swPc' = "range"
    /\ op' = Op("SweepUnlock", TRUE, swEcho, FALSE)
    /\ UNCHANGED <<logVars, echoqueue, ackPc, ackEcho, swEcho, swSeen, removedBy, access>>
    /\ UNCHANGED raceFrame

\* The two contexts on every content of the map, at a time when the ids up
\* to MaxEcho - 1 are past the 30 s window and MaxEcho is not.
InitRace ==
    /\ InitCommon
    /\ InitStartupOff /\ InitRaceOff /\ InitAddOff /\ InitPongOff
    /\ entries = <<>>
    /\ phase = "ready"
    /\ now = MaxEcho + timeForWait
    /\ lastTick = MaxEcho + timeForWait
    /\ echoqueue \in SUBSET (0..MaxEcho)

DoAckDecode == \E raw \in ApiFrames : AckDecode(raw)

NextRace ==
    \/ DoAckDecode \/ AckTest \/ AckLock \/ AckDelete \/ AckUnlock
    \/ SweepTick \/ SweepRange \/ SweepLog \/ SweepLock \/ SweepDelete \/ SweepUnlock

SpecRace == InitRace /\ [][NextRace]_vars

\* ------------------------------------------------- the logger's queue
\* What the logger's statements leave alone.
addFrame == <<routerVars, crashed, apiVars, startupVars, raceVars, pongVars>>

LogTypes == {LogTypeInfo, LogTypeError, LogTypeSuccess}

\* One whole call of loggerService.Add, nothing else running and no reader
\* on the channel. The log's echo field numbers the calls.
LogAdd(ltype) ==
    /\ added < MaxAdds
    /\ added' = added + 1
    /\ Add(NewLog(ltype, "log", added + 1))
    /\ op' = Op("Add", TRUE, added + 1, FALSE)
    /\ UNCHANGED addPc
    /\ UNCHANGED addFrame

InitLogger ==
    /\ InitCommon
    /\ InitStartupOff /\ InitRaceOff /\ InitAddOff /\ InitPongOff
    /\ entries = <<>>
    /\ phase = "ready"
    /\ now = 0
    /\ lastTick = 0
    /\ echoqueue = {}

DoLogAdd == \E ltype \in LogTypes : LogAdd(ltype)

NextLogger == DoLogAdd

SpecLogger == InitLogger /\ [][NextLogger]_vars

\* ------------------------------- goroutines inside Add, by statement
\* A caller that never drains (what C19 rules out).
DrainNever(n) == FALSE

\* Line 223: len(logger.logChan) >= maxQueueSize
Drain(n) == n >= maxQueueSize

\* The entry every caller of the client hands to Add: handleError, the
\* sweep's timeout and the decode failure all log with LogTypeError.
ErrorLog == NewLog(LogTypeError, "log", 0)

\* Lines 205-221: the files, the text and the counters.
AddCall(g) ==
    /\ addPc[g] = "idle"
    /\ added < MaxAdds
    /\ added' = added + 1
    /\ success' = SuccessAfter(success, ErrorLog)
    /\ fails' = FailsAfter(fails, ErrorLog)
    /\ addPc' = [addPc EXCEPT ![g] = "send"]
    /\ op' = Op("AddCall", TRUE, g, FALSE)
    /\ UNCHANGED logChan
    /\ UNCHANGED addFrame

\* Line 222: logger.logChan <- lg blocks while the channel holds
\* maxQueueSize entries (its capacity, line 327).
AddSend(g) ==
    /\ addPc[g] = "send"
    /\ Len(logChan) < maxQueueSize
    /\ logChan' = Append(logChan, ErrorLog)
    /\ addPc' = [addPc EXCEPT ![g] = "len"]
    /\ op' = Op("AddSend", TRUE, g, FALSE)
    /\ UNCHANGED <<success, fails, added>>
    /\ UNCHANGED addFrame

\* Line 223: the test of the length.
AddLen(g) ==
    /\ addPc[g] = "len"
    /\ addPc' = [addPc EXCEPT ![g] = IF Drain(Len(logChan)) THEN "recv" ELSE "idle"]
    /\ op' = Op("AddLen", TRUE, g, Drain(Len(logChan)))
    /\ UNCHANGED <<success, fails, logChan, added>>
    /\ UNCHANGED addFrame

\* Line 224: <-logger.logChan blocks while the channel is empty.
AddRecv(g) ==
    /\ addPc[g] = "recv"
    /\ Len(logChan) > 0
    /\ logChan' = Tail(logChan)
    /\ addPc' = [addPc EXCEPT ![g] = "idle"]
    /\ op' = Op("AddRecv", TRUE, g, FALSE)
    /\ UNCHANGED <<success, fails, added>>
    /\ UNCHANGED addFrame

DoAddCall == \E g \in Adders : AddCall(g)

DoAddSend == \E g \in Adders : AddSend(g)

DoAddLen == \E g \in Adders : AddLen(g)

DoAddRecv == \E g \in Adders : AddRecv(g)

NextAdders == DoAddCall \/ DoAddSend \/ DoAddLen \/ DoAddRecv

\* A goroutine that can run does run; a goroutine waiting on the channel is
\* queued by the runtime and served when the channel has room (or an entry).
SpecAdders ==
    /\ InitLogger
    /\ [][NextAdders]_vars
    /\ \A g \in Adders :
          /\ WF_vars(AddLen(g))
          /\ SF_vars(AddSend(g))
          /\ SF_vars(AddRecv(g))

\* ------------------------------------------------------------ setupPong
\* What the viewer's statements leave alone.
pongFrame == <<routerVars, logVars, apiVars, startupVars, raceVars, addVars>>

\* loggerService.setConn(conn, state)
SetConn(c, state) ==
    /\ ~crashed
    /\ conns' = [conns EXCEPT ![c] = IF state THEN "true" ELSE "false"]
    /\ op' = Op("setConn", state, c, FALSE)
    /\ UNCHANGED <<crashed, pongPc, closes, pongTick>>
    /\ UNCHANGED pongFrame

\* loggerService.delConn(conn)
DelConn(c) ==
    /\ ~crashed
    /\ conns' = [conns EXCEPT ![c] = "absent"]
    /\ op' = Op("delConn", TRUE, c, FALSE)
    /\ UNCHANGED <<crashed, pongPc, closes, pongTick>>
    /\ UNCHANGED pongFrame

\* setupPong(conn, quit): the ticker is made and the goroutine started.
StartPong(c) ==
    /\ ~crashed
    /\ pongPc[c] = "off"
    /\ pongPc' = [pongPc EXCEPT ![c] = "test"]
    /\ op' = Op("setupPong", TRUE, c, FALSE)
    /\ UNCHANGED <<crashed, conns, closes, pongTick>>
    /\ UNCHANGED pongFrame

\* pongTicker.C receives a tick (the channel buffers one).
PongTicker(c) ==
    /\ ~crashed
    /\ pongPc[c] \in {"test", "select"}
    /\ ~pongTick[c]
    /\ pongTick' = [pongTick EXCEPT ![c] = TRUE]
    /\ op' = Op("pongTicker", TRUE, c, FALSE)
    /\ UNCHANGED <<crashed, conns, pongPc, closes>>
    /\ UNCHANGED pongFrame

\* Lines 288-290: if Service.conns[conn] != true { close(quit) }. Closing a
\* closed channel panics, and nothing recovers the goroutine's panic.
PongTest(c) ==
    /\ ~crashed
    /\ pongPc[c] = "test"
    /\ IF conns[c] # "true"
       THEN /\ closes' = [closes EXCEPT ![c] = closes[c] + 1]
            /\ pongPc' = [pongPc EXCEPT ![c] = IF closes[c] > 0 THEN "panic" ELSE "select"]
            /\ crashed' = (closes[c] > 0)
       ELSE /\ pongPc' = [pongPc EXCEPT ![c] = "select"]
            /\ UNCHANGED <<closes, crashed>>
    /\ op' = Op("pongTest", conns[c] = "true", c, FALSE)
    /\ UNCHANGED <<conns, pongTick>>
    /\ UNCHANGED pongFrame

\* Lines 291-293: case <-quit is ready once quit is closed; the goroutine
\* returns and its deferred delConn runs.
PongQuit(c) ==
    /\ ~crashed
    /\ pongPc[c] = "select"
    /\ closes[c] > 0
    /\ pongPc' = [pongPc EXCEPT ![c] = "done"]
    /\ conns' = [conns EXCEPT ![c] = "absent"]
    /\ op' = Op("pongQuit", TRUE, c, FALSE)
    /\ UNCHANGED <<crashed, closes, pongTick>>
    /\ UNCHANGED pongFrame

\* Lines 294-298: case <-pongTicker.C, which select may take whenever a tick
\* is waiting, quit closed or not; the write fails (err) or not.
PongWrite(c, err) ==
    /\ ~crashed
    /\ pongPc[c] = "select"
    /\ pongTick[c]
    /\ pongTick' = [pongTick EXCEPT ![c] = FALSE]
    /\ IF err
       THEN /\ closes' = [closes EXCEPT ![c] = closes[c] + 1]
            /\ pongPc' = [pongPc EXCEPT ![c] = IF closes[c] > 0 THEN "panic" ELSE "test"]
            /\ crashed' = (closes[c] > 0)
       ELSE /\ pongPc' = [pongPc EXCEPT ![c] = "test"]
            /\ UNCHANGED <<closes, crashed>>
    /\ op' = Op("pongWrite", ~err, c, FALSE)
    /\ UNCHANGED conns
    /\ UNCHANGED pongFrame

DoSetConn == \E c \in Conns : \E state \in BOOLEAN : SetConn(c, state)

DoDelConn == \E c \in Conns : DelConn(c)

DoStartPong == \E c \in Conns : StartPong(c)

DoPongTicker == \E c \in Conns : PongTicker(c)

DoPongTest == \E c \in Conns : PongTest(c)

DoPongQuit == \E c \in Conns : PongQuit(c)

DoPongWrite == \E c \in Conns : \E err \in BOOLEAN : PongWrite(c, err)

NextPong ==
    \/ DoSetConn \/ DoDelConn \/ DoStartPong \/ DoPongTicker
    \/ DoPongTest \/ DoPongQuit \/ DoPongWrite

SpecPong == InitLogger /\ [][NextPong]_vars

\* ---------------------------------------------------------------- claims
Count(kind, i, k) ==
    Cardinality({p \in DOMAIN calls :
                    calls[p].kind = kind /\ calls[p].idx = i /\ calls[p].key = k})

\* The descriptors that own a dispatch entry.
Routable == {pluginEntries[n].idx : n \in DOMAIN pluginEntries}

Routed == op.name = "EventOnMessage" /\ event.valid

RoutedOk == Routed /\ op.ok

\* C1: after an event was routed without a panic, every handler of a routable
\* plugin whose key has no filter was invoked exactly once.
C1_UnclaimedExactlyOnce ==
    RoutedOk =>
        \A i \in Routable : \A k \in entries[i].handlers \ entries[i].filters :
            Count("handler", i, k) = 1

\* C2: after an event was routed without a panic, a handler whose key also has
\* a filter was invoked once if the event satisfies the filter and never if not.
C2_FilteredIffTrue ==
    RoutedOk =>
        \A i \in Routable : \A k \in entries[i].handlers \cap entries[i].filters :
            Count("handler", i, k) = (IF FilterId(i, k) \in event.truth THEN 1 ELSE 0)

\* C3: every transmitted action that is neither acknowledged nor older than
\* the expiry window has its echo in the outstanding set.
C3_TrackedBeforeSent ==
    \A p \in DOMAIN sent :
        (sent[p].echo \notin acked /\ now - sent[p].echo <= timeForWait)
            => sent[p].echo \in echoqueue

\* C4: a decoded acknowledgement with echo X removes X from the outstanding
\* set if it is there, leaves every other id alone, changes nothing when X is
\* not there, and reports no error.
C4_ResolveRemovesOnlyEcho ==
    [][(op'.name = "ApiOnMessage" /\ op'.ok) =>
          /\ echoqueue' = echoqueue \ {op'.echo}
          /\ fails' = fails
          /\ logChan' = logChan
          /\ ~crashed']_vars

C4_Witness ==
    /\ op.name = "ApiOnMessage"
    /\ op.hit
    /\ op.echo \notin echoqueue
    /\ echoqueue # {}

TimeoutLogged(echo) ==
    \E p \in DOMAIN logChan :
        logChan[p] = NewLog(LogTypeError, "timeout", echo)

\* C5: an action sent at T and never acknowledged is outstanding up to
\* T + 29 s, and by T + 61 s the sweep has removed it and logged its timeout.
C5_TimeoutWindow ==
    \A p \in DOMAIN sent :
        LET T == sent[p].echo
        IN T \notin acked =>
              /\ now <= T + timeForWait - 1 => T \in echoqueue
              /\ now >= T + 2 * timeForWait + 1 =>
                    (T \notin echoqueue /\ TimeoutLogged(T))

\* C6: SendGroupMsg with the API connection down transmits nothing, tracks
\* nothing and reports nothing.
C6_SendWhileDown ==
    [][(op'.name = "SendGroupMsg" /\ ~apiConnected) =>
          /\ sent' = sent
          /\ echoqueue' = echoqueue
          /\ fails' = fails
          /\ logChan' = logChan
          /\ ~crashed']_vars

C6_Witness ==
    /\ op.name = "SendGroupMsg"
    /\ ~op.ok
    /\ ~apiConnected
    /\ sent = <<>>

\* C7: when a function of one plugin panics on an event, every other plugin
\* that owns a dispatch entry still has its unconditional function invoked.
C7_PanicIsolated ==
    Routed =>
        \A i \in Routable :
            i # event.bad.idx => Count("synth_enter", i, noFilterKey) >= 1

\* C8: a payload that fails to decode invokes no filter and no handler and
\* adds exactly one error entry to the log.
C8_DecodeErrorReported ==
    [][(op'.name = "EventOnMessage" /\ ~event'.valid) =>
          /\ calls' = <<>>
          /\ fails' = fails + 1
          /\ Len(logChan') = Len(logChan) + 1
          /\ logChan'[Len(logChan')].Type = LogTypeError]_vars

LastOf(name) ==
    CHOOSE j \in DOMAIN entries :
        /\ entries[j].name = name
        /\ \A i \in DOMAIN entries : entries[i].name = name => i <= j

Superseded ==
    {i \in DOMAIN entries : \E j \in DOMAIN entries : i < j /\ entries[i].name = entries[j].name}

\* C9: of the descriptors that share a name only the last owns the dispatch
\* entry: no function of an earlier one is ever invoked, and the last one is
\* dispatched like any other plugin (its unconditional function runs, each of
\* its bound filters is evaluated once).
C9_LaterSupersedes ==
    /\ \A p \in DOMAIN calls : calls[p].idx \notin Superseded
    /\ phase = "ready" =>
          \A i \in DOMAIN entries :
              pluginEntries[entries[i].name].idx = LastOf(entries[i].name)
    /\ RoutedOk =>
          \A i \in (DOMAIN entries) \ Superseded :
              /\ Count("synth_enter", i, noFilterKey) >= 1
              /\ \A k \in entries[i].handlers \cap entries[i].filters :
                    Count("filter", i, k) = 1

C9_Witness ==
    /\ RoutedOk
    /\ \E i \in Superseded :
          /\ entries[i].handlers # {}
          /\ \E p \in DOMAIN calls :
                /\ calls[p].kind = "handler"
                /\ calls[p].idx = LastOf(entries[i].name)

\* C10: when a filter of a plugin is evaluated, or a handler bound to a filter
\* is invoked, the plugin's unconditional function has already been invoked
\* and has returned for this event.
C10_UnconditionalFirst ==
    \A p \in DOMAIN calls :
        (\/ calls[p].kind = "filter"
         \/ /\ calls[p].kind = "handler"
            /\ calls[p].key \in entries[calls[p].idx].filters)
        => \E q \in 1..(p - 1) :
              /\ calls[q].kind = "synth_exit"
              /\ calls[q].idx = calls[p].idx

C10_Witness ==
    /\ RoutedOk
    /\ \E p \in DOMAIN calls : \E q \in DOMAIN calls : \E r \in DOMAIN calls :
          /\ q < p /\ p < r
          /\ calls[q].kind = "handler"
          /\ calls[q].key \notin entries[calls[q].idx].filters
          /\ calls[p].kind = "filter" /\ calls[p].res = "true"
          /\ calls[r].kind = "handler"
          /\ calls[r].key = calls[p].key
          /\ calls[q].idx = calls[p].idx /\ calls[r].idx = calls[p].idx

C18_ReservedKeyNeverFiltered ==
    /\ \A n \in DOMAIN pluginEntries :
          /\ pluginEntries[n].handlers[noFilterKey].kind = "synth"
          /\ noFilterKey \notin DOMAIN pluginEntries[n].fitlers
    /\ RoutedOk =>
          \A i \in Routable :
              /\ Count("synth_enter", i, noFilterKey) = 1
              /\ Count("filter", i, noFilterKey) = 0

\* C14: two transmitted actions that are outstanding together (neither has
\* been acknowledged) carry different echo values.
C14_FreshEcho ==
    \A p \in DOMAIN sent : \A q \in DOMAIN sent :
        (p < q /\ sent[p].echo \notin acked /\ sent[q].echo \notin acked)
            => sent[p].echo # sent[q].echo

\* C16: a step of the acknowledgement callback on a frame that does not
\* decode reports one error entry, leaves the outstanding set and the
\* plugins' call record unchanged, and returns normally, so the callback
\* keeps serving later frames.
C16_ApiDecodeFailure ==
    [][(op'.name = "ApiOnMessage" /\ ~op'.ok) =>
          /\ fails' = fails + 1
          /\ logChan' = Append(logChan, NewLog(LogTypeError, "decode", 0))
          /\ echoqueue' = echoqueue
          /\ calls' = calls
          /\ phase' = "ready" /\ ~crashed']_vars

\* After a frame failed to decode, a later acknowledgement resolved a
\* tracked id.
C16_Witness ==
    /\ op.name = "ApiOnMessage" /\ op.ok /\ op.hit
    /\ op.echo \notin echoqueue
    /\ \E i \in DOMAIN logChan : logChan[i].what = "decode"

\* C11: no event is routed while the dispatch table still has stores to
\* come, and no store to the table is made once an event has been routed.
C11_TableBuiltBeforeRouting ==
    [][/\ (op'.name = "EventOnMessage") => (WiringLeft = {})
       /\ (op'.name = "RegisterWire") => ~routed]_vars

\* C13: every access to the outstanding set is made by a context holding
\* the mutex, and the two contexts are never both at an access to the set
\* with one of them at its delete.
C13_LockedAccess ==
    /\ access.locked
    /\ ~(/\ ackPc \in {"test", "delete"}
         /\ swPc \in {"range", "delete"}
         /\ (ackPc = "delete" \/ swPc = "delete"))

TimeoutLogs(id) ==
    Cardinality({i \in DOMAIN logChan :
                    logChan[i].what = "timeout" /\ logChan[i].echo = id})

C17_QueueKeepsLastTen ==
    /\ Len(logChan) = (IF added < maxQueueSize THEN added ELSE maxQueueSize)
    /\ \A i \in DOMAIN logChan : logChan[i].echo = added - Len(logChan) + i

\* C19: the channel never holds more than maxQueueSize entries, and every
\* goroutine that has entered Add leaves it.
C19_AddReturns ==
    /\ [](Len(logChan) <= maxQueueSize)
    /\ \A g \in Adders : (addPc[g] # "idle") ~> (addPc[g] = "idle")

\* One caller waits to send on the full channel while another is about to
\* drain it.
C19_Witness ==
    \E g \in Adders : \E h \in Adders :
        /\ addPc[g] = "send"
        /\ addPc[h] = "recv"
        /\ Len(logChan) = maxQueueSize

\* C20: no connection's quit channel has close executed on it twice.
C20_QuitClosedOnce == \A c \in Conns : closes[c] <= 1

====
